---------------------------- MODULE Spec2Model ----------------------------
(***************************************************************************)
(* LayoutPipelineSolver: a step-driven pipeline of four phase solvers,     *)
(* with per-phase timing records and a rotation-aware overlap validator.   *)
(*                                                                         *)
(* The orchestrator object is the record `this`; its fields carry the      *)
(* names of the TypeScript fields.  Sub-solvers and BaseSolver.step() are   *)
(* not part of the sources at hand; they follow the Incremental Solver     *)
(* Contract of the specification.                                          *)
(***************************************************************************)
EXTENDS Integers, Sequences, FiniteSets, TLC

VARIABLES
    this,       \* the LayoutPipelineSolver instance
    now,        \* the value performance.now() returns
    pc,         \* position of the caller inside solveUntilPhase
    phase,      \* the argument of the running solveUntilPhase call
    outcome,    \* what the last call of a public operation did
    checkedLayout,  \* the argument of the checkForOverlaps call
    reported        \* what that call returned

vars == <<this, now, pc, phase, outcome, checkedLayout, reported>>

-----------------------------------------------------------------------------
(* Bounds of the model *)

\* largest number of its own steps a sub-solver needs to solve or to fail
MaxSubSteps == 2
\* the iteration bound of every sub-solver
SubMaxIterations == 3
\* the largest value of the clock
MaxTime == 1
\* the largest x coordinate of a placement handed to checkForOverlaps
MaxCoord == 1
\* the orchestrator's iteration bound (this.MAX_ITERATIONS = 1e6), scaled
\* to the size of the runs of this model
MAX_ITERATIONS == 10

-----------------------------------------------------------------------------
(* The phase table *)

pipelineDef ==
    << "identifyDecouplingCapsSolver", "chipPartitionsSolver",
       "packInnerPartitionsSolver", "partitionPackingSolver" >>

SolverNames == { pipelineDef[i] : i \in 1..Len(pipelineDef) }

\* position (0-based, as currentPipelineStepIndex) of a solver in the table
IndexOf(name) == CHOOSE i \in 0..(Len(pipelineDef) - 1) : pipelineDef[i + 1] = name

\* this.pipelineDef[this.currentPipelineStepIndex], "undefined" past the end
pipelineStepDef(self) ==
    IF self.currentPipelineStepIndex < Len(pipelineDef)
    THEN pipelineDef[self.currentPipelineStepIndex + 1]
    ELSE "undefined"

getCurrentPhase(self) ==
    IF pipelineStepDef(self) = "undefined" THEN "none" ELSE pipelineStepDef(self)


-----------------------------------------------------------------------------
(* Sub-solvers: the Incremental Solver Contract *)

\* How a sub-solver behaves is fixed by what it was constructed from:
\* it solves at its need-th step, fails at its need-th step, or never does
\* either and runs into its iteration bound.
SubSolverBehaviours ==
    [kind : {"solves", "fails"}, need : 1..MaxSubSteps]
        \cup { [kind |-> "never", need |-> 0] }

\* a freshly constructed sub-solver
NewSubSolver(params, b, layout) ==
    [ solved |-> FALSE, failed |-> FALSE, error |-> "null", iterations |-> 0,
      params |-> params, kind |-> b.kind, need |-> b.need,
      output |-> "undefined", produces |-> layout ]

\* what a sub-solver exposes once solved: partitions, packedPartitions,
\* outputDecouplingCapGroups, finalLayout
OutputOf(name, s) ==
    CASE name = "identifyDecouplingCapsSolver" -> "outputDecouplingCapGroups"
      [] name = "chipPartitionsSolver"          -> "partitions"
      [] name = "packInnerPartitionsSolver"     -> "packedPartitions"
      [] OTHER                                  -> s.produces

\* BaseSolver.step() of a sub-solver: a no-op once solved or failed,
\* otherwise one more iteration, after which the solver may be solved or
\* failed; past the iteration bound it fails.
SubSolverStep(name, s) ==
    IF s.solved \/ s.failed THEN s
    ELSE LET it == s.iterations + 1 IN
         IF s.kind = "solves" /\ it >= s.need
         THEN [s EXCEPT !.iterations = it, !.solved = TRUE,
                        !.output = OutputOf(name, s)]
         ELSE IF s.kind = "fails" /\ it >= s.need
         THEN [s EXCEPT !.iterations = it, !.failed = TRUE,
                        !.error = "SubSolverFailure"]
         ELSE IF it > SubMaxIterations
         THEN [s EXCEPT !.iterations = it, !.failed = TRUE,
                        !.error = "IterationLimitExceeded"]
         ELSE [s EXCEPT !.iterations = it]

-----------------------------------------------------------------------------
(* The orchestrator *)

\* whether the solver field this[name] is set
IsSet(self, name) == name \in DOMAIN self.solvers

\* getConstructorParams of each pipeline step
getConstructorParams(self, name) ==
    CASE name = "identifyDecouplingCapsSolver" ->
            << "inputProblem" >>
      [] name = "chipPartitionsSolver" ->
            << "inputProblem",
               IF IsSet(self, "identifyDecouplingCapsSolver")
               THEN self.solvers["identifyDecouplingCapsSolver"].output
               ELSE "undefined" >>
      [] name = "packInnerPartitionsSolver" ->
            << self.chipPartitions, "pinIdToStronglyConnectedPins" >>
      [] OTHER ->
            << IF self.packedPartitions = "undefined" THEN "[]"
               ELSE self.packedPartitions,
               "inputProblem" >>

\* onSolved with a hook of the last phase that stores its solver's packed
\* partitions once more
onSolved_LastPhaseWritesToo(self, name) ==
    LET called == [self EXCEPT !.onSolvedCalls[name] = @ + 1] IN
    CASE name = "chipPartitionsSolver" ->
            [called EXCEPT !.chipPartitions = self.solvers[name].output,
                           !.writes["chipPartitions"] = @ + 1]
      [] name = "packInnerPartitionsSolver" ->
            [called EXCEPT !.packedPartitions = self.solvers[name].output,
                           !.writes["packedPartitions"] = @ + 1]
      [] name = "partitionPackingSolver" ->
            [called EXCEPT !.packedPartitions = self.solvers[name].params[1],
                           !.writes["packedPartitions"] = @ + 1]
      [] OTHER -> called

\* onSolved of each pipeline step
onSolved(self, name) ==
    LET called == [self EXCEPT !.onSolvedCalls[name] = @ + 1] IN
    CASE name = "chipPartitionsSolver" ->
            [called EXCEPT !.chipPartitions = self.solvers[name].output,
                           !.writes["chipPartitions"] = @ + 1]
      [] name = "packInnerPartitionsSolver" ->
            [called EXCEPT !.packedPartitions = self.solvers[name].output,
                           !.writes["packedPartitions"] = @ + 1]
      [] OTHER -> called

\* this.<record>[solverName] = value, counting the write
SetPhaseRecord(self, field, name, value) ==
    [self EXCEPT ![field] = (name :> value) @@ @,
                 !.phaseWrites[field][name] = @ + 1]

\* CompletePhase that sets solved when it completes the last phase
CompletePhase_SolvesWithLastPhase(self, name, t) ==
    LET s1 == SetPhaseRecord(self, "endTimeOfPhase", name, t)
        s2 == SetPhaseRecord(s1, "timeSpentOnPhase", name,
                             s1.endTimeOfPhase[name] - s1.startTimeOfPhase[name])
        s3 == onSolved(s2, name)
    IN [s3 EXCEPT !.activeSubSolver = "null",
                  !.currentPipelineStepIndex = @ + 1,
                  !.solved = (self.currentPipelineStepIndex + 1
                                 = Len(pipelineDef))]

\* CompletePhase with the index advanced by two
CompletePhase_SkipsAPhase(self, name, t) ==
    LET s1 == SetPhaseRecord(self, "endTimeOfPhase", name, t)
        s2 == SetPhaseRecord(s1, "timeSpentOnPhase", name,
                             s1.endTimeOfPhase[name] - s1.startTimeOfPhase[name])
        s3 == onSolved(s2, name)
    IN [s3 EXCEPT !.activeSubSolver = "null",
                  !.currentPipelineStepIndex = @ + 2]

\* CompletePhase without the call of the completion hook
CompletePhase_NoHook(self, name, t) ==
    LET s1 == SetPhaseRecord(self, "endTimeOfPhase", name, t)
        s2 == SetPhaseRecord(s1, "timeSpentOnPhase", name,
                             s1.endTimeOfPhase[name] - s1.startTimeOfPhase[name])
    IN [s2 EXCEPT !.activeSubSolver = "null",
                  !.currentPipelineStepIndex = @ + 1]

\* CompletePhase with the end time stored as the time spent
CompletePhase_ElapsedIsEnd(self, name, t) ==
    LET s1 == SetPhaseRecord(self, "endTimeOfPhase", name, t)
        s2 == SetPhaseRecord(s1, "timeSpentOnPhase", name,
                             s1.endTimeOfPhase[name])
        s3 == onSolved(s2, name)
    IN [s3 EXCEPT !.activeSubSolver = "null",
                  !.currentPipelineStepIndex = @ + 1]

\* the branch of _step taken when the stepped sub-solver is solved
CompletePhase(self, name, t) ==
    LET s1 == SetPhaseRecord(self, "endTimeOfPhase", name, t)
        s2 == SetPhaseRecord(s1, "timeSpentOnPhase", name,
                             s1.endTimeOfPhase[name] - s1.startTimeOfPhase[name])
        s3 == onSolved(s2, name)
    IN [s3 EXCEPT !.activeSubSolver = "null",
                  !.currentPipelineStepIndex = @ + 1]

\* FailPhase that leaves the failed sub-solver active
FailPhase_KeepsActive(self, name) ==
    [self EXCEPT !.error = self.solvers[name].error,
                 !.failed = TRUE]

\* FailPhase that also advances the phase index
FailPhase_AdvancesIndex(self, name) ==
    [self EXCEPT !.error = self.solvers[name].error,
                 !.failed = TRUE,
                 !.activeSubSolver = "null",
                 !.currentPipelineStepIndex = @ + 1]

\* FailPhase that forgets the failed flag and moves on
FailPhase_MovesOn(self, name) ==
    [self EXCEPT !.error = self.solvers[name].error,
                 !.activeSubSolver = "null",
                 !.currentPipelineStepIndex = @ + 1]

\* the branch of _step taken when the stepped sub-solver is failed
FailPhase(self, name) ==
    [self EXCEPT !.error = self.solvers[name].error,
                 !.failed = TRUE,
                 !.activeSubSolver = "null"]

\* ConstructPhase that steps the new sub-solver at once
ConstructPhase_StepsAtOnce(self, name, t, b, layout) ==
    LET sub == SubSolverStep(name,
                   NewSubSolver(getConstructorParams(self, name), b,
                                IF name = "partitionPackingSolver"
                                THEN layout ELSE "undefined"))
        s1 == [self EXCEPT !.activeSubSolver = name,
                           !.solvers = (name :> sub) @@ @,
                           !.constructions = Append(@, name)]
        s2 == SetPhaseRecord(s1, "timeSpentOnPhase", name, 0)
        s3 == SetPhaseRecord(s2, "startTimeOfPhase", name, t)
    IN SetPhaseRecord(s3, "firstIterationOfPhase", name, s3.iterations)

\* the part of _step that initializes the next solver in the pipeline
ConstructPhase(self, name, t, b, layout) ==
    LET sub == NewSubSolver(getConstructorParams(self, name), b,
                            IF name = "partitionPackingSolver"
                            THEN layout ELSE "undefined")
        s1 == [self EXCEPT !.activeSubSolver = name,
                           !.solvers = (name :> sub) @@ @,
                           !.constructions = Append(@, name)]
        s2 == SetPhaseRecord(s1, "timeSpentOnPhase", name, 0)
        s3 == SetPhaseRecord(s2, "startTimeOfPhase", name, t)
    IN SetPhaseRecord(s3, "firstIterationOfPhase", name, s3.iterations)

\* _step that constructs the next sub-solver in the step that completes a
\* phase
_step_ConstructsAtOnce(self, t, b, layout) ==
    LET name == pipelineStepDef(self) IN
    IF name = "undefined"
    THEN [self EXCEPT !.solved = TRUE]
    ELSE IF self.activeSubSolver # "null"
    THEN LET active == self.activeSubSolver
             sub == SubSolverStep(active, self.solvers[active])
             s1 == [self EXCEPT !.solvers[active] = sub]
             done == CompletePhase(s1, name, t)
         IN IF sub.solved
            THEN IF pipelineStepDef(done) = "undefined" THEN done
                 ELSE ConstructPhase(done, pipelineStepDef(done), t, b, layout)
            ELSE IF sub.failed THEN FailPhase(s1, active)
            ELSE s1
    ELSE ConstructPhase(self, name, t, b, layout)

\* _step with the solved and the failed branch exchanged
_step_ExchangesBranches(self, t, b, layout) ==
    LET name == pipelineStepDef(self) IN
    IF name = "undefined"
    THEN [self EXCEPT !.solved = TRUE]
    ELSE IF self.activeSubSolver # "null"
    THEN LET active == self.activeSubSolver
             sub == SubSolverStep(active, self.solvers[active])
             s1 == [self EXCEPT !.solvers[active] = sub]
         IN IF sub.solved THEN FailPhase(s1, active)
            ELSE IF sub.failed THEN CompletePhase(s1, name, t)
            ELSE s1
    ELSE ConstructPhase(self, name, t, b, layout)

\* LayoutPipelineSolver._step; t is the value performance.now() returns,
\* b and layout fix the behaviour of a sub-solver constructed in this step
_step(self, t, b, layout) ==
    LET name == pipelineStepDef(self) IN
    IF name = "undefined"
    THEN [self EXCEPT !.solved = TRUE]
    ELSE IF self.activeSubSolver # "null"
    THEN LET active == self.activeSubSolver
             sub == SubSolverStep(active, self.solvers[active])
             s1 == [self EXCEPT !.solvers[active] = sub]
         IN IF sub.solved THEN CompletePhase(s1, name, t)
            ELSE IF sub.failed THEN FailPhase(s1, active)
            ELSE s1
    ELSE ConstructPhase(self, name, t, b, layout)

\* step() without the test for a solver that is solved or failed already
step_NoGuard(self, t, b, layout) ==
    LET s1 == [self EXCEPT !.iterations = @ + 1]
        s2 == _step(s1, t, b, layout)
    IN IF ~s2.solved /\ s2.iterations > MAX_ITERATIONS
       THEN [s2 EXCEPT !.failed = TRUE,
                       !.error = "IterationLimitExceeded"]
       ELSE s2

\* BaseSolver.step() of the orchestrator
step(self, t, b, layout) ==
    IF self.solved \/ self.failed THEN self
    ELSE LET s1 == [self EXCEPT !.iterations = @ + 1]
             s2 == _step(s1, t, b, layout)
         IN IF ~s2.solved /\ s2.iterations > MAX_ITERATIONS
            THEN [s2 EXCEPT !.failed = TRUE,
                            !.error = "IterationLimitExceeded"]
            ELSE s2


-----------------------------------------------------------------------------
(* IEEE-754 double arithmetic on the numbers the validator meets *)

\* A number is n + e * 2^-60 + ee * 2^-120 with n an integer and e, ee small:
\* chip sizes and positions are integers, and cos(90 deg), sin(180 deg),
\* cos(270 deg) are 6.1e-17, 1.2e-16, 1.8e-16 in double arithmetic, not 0.
Num(n) == [n |-> n, e |-> 0, ee |-> 0]
Tiny(e) == [n |-> 0, e |-> e, ee |-> 0]

RECURSIVE Pow2(_)
Pow2(k) == IF k <= 0 THEN 1 ELSE 2 * Pow2(k - 1)

RECURSIVE Log2Floor(_)
Log2Floor(a) == IF a <= 1 THEN 0 ELSE 1 + Log2Floor(a \div 2)

Abs(i) == IF i < 0 THEN -i ELSE i
Sign(i) == IF i < 0 THEN -1 ELSE IF i > 0 THEN 1 ELSE 0

\* the spacing of doubles around n + e * 2^-60, in units of 2^-60 (n # 0):
\* 2^-52 = 256 units in [1, 2), doubling with every binade; just below a
\* power of two the spacing is that of the binade below
UlpOf(n, e) ==
    LET p == Pow2(Log2Floor(Abs(n)))
    IN IF Abs(n) = p /\ e * Sign(n) < 0 THEN 128 * p ELSE 256 * p

\* round e to a multiple of u, to nearest, ties to even; sticky is the sign
\* of what the exact value holds beyond e
RoundToNearest(e, u, sticky) ==
    LET f == e \div u
        r == e - f * u
    IN IF 2 * r < u THEN f * u
       ELSE IF 2 * r > u THEN (f + 1) * u
       ELSE IF sticky > 0 THEN (f + 1) * u
       ELSE IF sticky < 0 THEN f * u
       ELSE IF f % 2 = 0 THEN f * u ELSE (f + 1) * u

\* the double nearest to n + e * 2^-60 (+ sticky); small integers and the
\* numbers far below 1 are doubles as they stand
Round(n, e, sticky) ==
    IF n = 0 \/ e = 0 THEN [n |-> n, e |-> e, ee |-> 0]
    ELSE [n |-> n, e |-> RoundToNearest(e, UlpOf(n, e), sticky), ee |-> 0]

Add(a, b) == Round(a.n + b.n, a.e + b.e, 0)
Sub(a, b) == Round(a.n - b.n, a.e - b.e, 0)

Mul(a, b) ==
    LET n == a.n * b.n
        e == a.n * b.e + a.e * b.n
        ee == a.e * b.e
    IN IF n # 0 THEN Round(n, e, Sign(ee))
       ELSE IF e # 0 THEN [n |-> 0, e |-> e, ee |-> 0]
       ELSE [n |-> 0, e |-> 0, ee |-> ee]

Less(a, b) ==
    \/ a.n < b.n
    \/ a.n = b.n /\ a.e < b.e
    \/ a.n = b.n /\ a.e = b.e /\ a.ee < b.ee

Leq(a, b) == ~Less(b, a)
MinNum(a, b) == IF Less(b, a) THEN b ELSE a
MaxNum(a, b) == IF Less(a, b) THEN b ELSE a

\* size / 2; the sizes of the model are even
Half(size) == Num(size \div 2)

\* Math.abs(Math.cos(deg * Math.PI / 180)) for the quarter turns
AbsCos(deg) ==
    CASE deg = 0   -> Num(1)
      [] deg = 90  -> Tiny(71)
      [] deg = 180 -> Num(1)
      [] deg = 270 -> Tiny(212)

\* Math.abs(Math.sin(deg * Math.PI / 180)) for the quarter turns
AbsSin(deg) ==
    CASE deg = 0   -> Num(0)
      [] deg = 90  -> Num(1)
      [] deg = 180 -> Tiny(141)
      [] deg = 270 -> Num(1)

-----------------------------------------------------------------------------
(* The layout validator *)

\* getRotatedBounds that takes the chip as not rotated
getRotatedBounds_IgnoresRotation(placement, size) ==
    LET rotatedWidth == Half(size.x)
        rotatedHeight == Half(size.y)
    IN [ minX |-> Sub(Num(placement.x), rotatedWidth),
         maxX |-> Add(Num(placement.x), rotatedWidth),
         minY |-> Sub(Num(placement.y), rotatedHeight),
         maxY |-> Add(Num(placement.y), rotatedHeight) ]

getRotatedBounds(placement, size) ==
    LET halfWidth == Half(size.x)
        halfHeight == Half(size.y)
        cos == AbsCos(placement.ccwRotationDegrees)
        sin == AbsSin(placement.ccwRotationDegrees)
        rotatedWidth == Add(Mul(halfWidth, cos), Mul(halfHeight, sin))
        rotatedHeight == Add(Mul(halfWidth, sin), Mul(halfHeight, cos))
    IN [ minX |-> Sub(Num(placement.x), rotatedWidth),
         maxX |-> Add(Num(placement.x), rotatedWidth),
         minY |-> Sub(Num(placement.y), rotatedHeight),
         maxY |-> Add(Num(placement.y), rotatedHeight) ]

\* calculateOverlapArea with the height taken from the X bounds
calculateOverlapArea_HeightFromX(bounds1, bounds2) ==
    IF \/ Leq(bounds1.maxX, bounds2.minX)
       \/ Leq(bounds2.maxX, bounds1.minX)
       \/ Leq(bounds1.maxY, bounds2.minY)
       \/ Leq(bounds2.maxY, bounds1.minY)
    THEN Num(0)
    ELSE LET overlapWidth == Sub(MinNum(bounds1.maxX, bounds2.maxX),
                                 MaxNum(bounds1.minX, bounds2.minX))
             overlapHeight == Sub(MinNum(bounds1.maxX, bounds2.maxX),
                                  MaxNum(bounds1.minX, bounds2.minX))
         IN Mul(overlapWidth, overlapHeight)

calculateOverlapArea(bounds1, bounds2) ==
    IF \/ Leq(bounds1.maxX, bounds2.minX)
       \/ Leq(bounds2.maxX, bounds1.minX)
       \/ Leq(bounds1.maxY, bounds2.minY)
       \/ Leq(bounds2.maxY, bounds1.minY)
    THEN Num(0)
    ELSE LET overlapWidth == Sub(MinNum(bounds1.maxX, bounds2.maxX),
                                 MaxNum(bounds1.minX, bounds2.minX))
             overlapHeight == Sub(MinNum(bounds1.maxY, bounds2.maxY),
                                  MaxNum(bounds1.minY, bounds2.minY))
         IN Mul(overlapWidth, overlapHeight)

\* the loops of checkForOverlaps with the inner loop started at the first
\* chip instead of the one after i
RECURSIVE CheckPairsFrom_InnerFromFirst(_, _, _, _, _)
CheckPairsFrom_InnerFromFirst(chipMap, chipPlacements, i, j, found) ==
    IF i > Len(chipPlacements) THEN found
    ELSE IF j > Len(chipPlacements)
    THEN CheckPairsFrom_InnerFromFirst(chipMap, chipPlacements, i + 1, 1, found)
    ELSE LET placement1 == chipPlacements[i]
             placement2 == chipPlacements[j]
             chip1Id == placement1.chipId
             chip2Id == placement2.chipId
         IN IF chip1Id \notin DOMAIN chipMap \/ chip2Id \notin DOMAIN chipMap
            THEN CheckPairsFrom_InnerFromFirst(chipMap, chipPlacements, i, j + 1,
                                               found)
            ELSE LET bounds1 == getRotatedBounds(placement1, chipMap[chip1Id].size)
                     bounds2 == getRotatedBounds(placement2, chipMap[chip2Id].size)
                     overlapArea == calculateOverlapArea(bounds1, bounds2)
                 IN CheckPairsFrom_InnerFromFirst(chipMap, chipPlacements, i, j + 1,
                        IF Less(Num(0), overlapArea)
                        THEN Append(found,
                                    [chip1 |-> chip1Id, chip2 |-> chip2Id,
                                     overlapArea |-> overlapArea])
                        ELSE found)

\* the two nested loops of checkForOverlaps, from the pair (i, j) on;
\* chipPlacements is the layout's placements in Object.keys order
RECURSIVE CheckPairsFrom(_, _, _, _, _)
CheckPairsFrom(chipMap, chipPlacements, i, j, overlaps) ==
    IF i > Len(chipPlacements) THEN overlaps
    ELSE IF j > Len(chipPlacements)
    THEN CheckPairsFrom(chipMap, chipPlacements, i + 1, i + 2, overlaps)
    ELSE LET placement1 == chipPlacements[i]
             placement2 == chipPlacements[j]
             chip1Id == placement1.chipId
             chip2Id == placement2.chipId
         IN IF chip1Id \notin DOMAIN chipMap \/ chip2Id \notin DOMAIN chipMap
            THEN CheckPairsFrom(chipMap, chipPlacements, i, j + 1, overlaps)
            ELSE LET bounds1 == getRotatedBounds(placement1, chipMap[chip1Id].size)
                     bounds2 == getRotatedBounds(placement2, chipMap[chip2Id].size)
                     overlapArea == calculateOverlapArea(bounds1, bounds2)
                 IN CheckPairsFrom(chipMap, chipPlacements, i, j + 1,
                        IF Less(Num(0), overlapArea)
                        THEN Append(overlaps,
                                    [chip1 |-> chip1Id, chip2 |-> chip2Id,
                                     overlapArea |-> overlapArea])
                        ELSE overlaps)

checkForOverlaps(self, chipPlacements) ==
    CheckPairsFrom(self.inputProblem.chipMap, chipPlacements, 1, 2, << >>)

\* the layouts the terminal phase may expose, for the two-chip problem
Placement(id, x, y, deg) ==
    [chipId |-> id, x |-> x, y |-> y, ccwRotationDegrees |-> deg]

FinalLayoutNames == {"undefined", "overlapping", "touching", "turned"}

FinalLayout(name) ==
    CASE name = "overlapping" ->
            << Placement("U1", 0, 0, 0), Placement("U2", 1, 0, 0) >>
      [] name = "touching" ->
            << Placement("U1", 0, 0, 0), Placement("U2", 2, 0, 0) >>
      [] name = "turned" ->
            << Placement("U1", 0, 0, 0), Placement("U2", 2, 0, 180) >>

Chip(w, h) == [size |-> [x |-> w, y |-> h]]

TwoChipProblem ==
    [chipMap |-> ("U1" :> Chip(2, 2)) @@ ("U2" :> Chip(2, 2))]

\* getOutputLayout without the test of this.solved
getOutputLayout_NoSolvedTest(self) ==
    IF \/ ~IsSet(self, "partitionPackingSolver")
       \/ ~self.solvers["partitionPackingSolver"].solved
       \/ self.solvers["partitionPackingSolver"].output = "undefined"
    THEN [op |-> "getOutputLayout", threw |-> "InvalidFinalLayoutError",
          returned |-> "nothing", warned |-> FALSE]
    ELSE LET finalLayout == self.solvers["partitionPackingSolver"].output
             violations == checkForOverlaps(self, FinalLayout(finalLayout))
         IN [op |-> "getOutputLayout", threw |-> "none",
             returned |-> finalLayout, warned |-> Len(violations) > 0]

\* LayoutPipelineSolver.getOutputLayout: what it throws or returns, and
\* whether it logs the overlap warning
getOutputLayout(self) ==
    IF ~self.solved
    THEN [op |-> "getOutputLayout", threw |-> "IncompleteError",
          returned |-> "nothing", warned |-> FALSE]
    ELSE IF \/ ~IsSet(self, "partitionPackingSolver")
            \/ ~self.solvers["partitionPackingSolver"].solved
            \/ self.solvers["partitionPackingSolver"].output = "undefined"
    THEN [op |-> "getOutputLayout", threw |-> "InvalidFinalLayoutError",
          returned |-> "nothing", warned |-> FALSE]
    ELSE LET finalLayout == self.solvers["partitionPackingSolver"].output
             violations == checkForOverlaps(self, FinalLayout(finalLayout))
         IN [op |-> "getOutputLayout", threw |-> "none",
             returned |-> finalLayout, warned |-> Len(violations) > 0]

-----------------------------------------------------------------------------
(* Visualization *)

\* A GraphicsObject is the sequence of the visualizations it holds, each
\* with the solver (or the input problem) it shows, the method that made
\* it, and the step tag its primitives carry.
Untagged(of, view) ==
    [of |-> of, view |-> view, tagged |-> FALSE, step |-> 0]

\* rect.step = stepIndex, and the same for the other primitives
Tag(viz, stepIndex) == [viz EXCEPT !.tagged = TRUE, !.step = stepIndex]

\* [inputViz, identifyDecouplingCapsViz, ...].filter(Boolean)
AvailableVisualizations(self) ==
    << Untagged("inputProblem", "visualizeInputProblem") >>
        \o [ i \in 1..Len(SelectSeq(pipelineDef, LAMBDA n : IsSet(self, n))) |->
                Untagged(SelectSeq(pipelineDef, LAMBDA n : IsSet(self, n))[i],
                         "visualize") ]

\* LayoutPipelineSolver.visualize
visualize(self) ==
    IF ~self.solved /\ self.activeSubSolver # "null"
    THEN [merged |-> FALSE,
          layers |-> << Untagged(self.activeSubSolver, "visualize") >>]
    ELSE IF /\ self.solved
            /\ IsSet(self, "partitionPackingSolver")
            /\ self.solvers["partitionPackingSolver"].solved
    THEN [merged |-> FALSE,
          layers |-> << Untagged("partitionPackingSolver", "visualize") >>]
    ELSE LET available == AvailableVisualizations(self)
             visualizations ==
                 [ stepIndex \in 1..Len(available) |->
                     Tag(available[stepIndex], stepIndex - 1) ]
         IN IF Len(visualizations) = 1
            THEN [merged |-> FALSE, layers |-> visualizations]
            ELSE [merged |-> TRUE, layers |-> visualizations]

\* LayoutPipelineSolver.preview
preview(self) ==
    IF self.activeSubSolver # "null"
    THEN [merged |-> FALSE,
          layers |-> << Untagged(self.activeSubSolver, "preview") >>]
    ELSE [merged |-> FALSE,
          layers |-> <<
            IF IsSet(self, "partitionPackingSolver")
            THEN Untagged("partitionPackingSolver", "visualize")
            ELSE IF IsSet(self, "packInnerPartitionsSolver")
            THEN Untagged("packInnerPartitionsSolver", "visualize")
            ELSE IF IsSet(self, "chipPartitionsSolver")
            THEN Untagged("chipPartitionsSolver", "visualize")
            ELSE IF IsSet(self, "identifyDecouplingCapsSolver")
            THEN Untagged("identifyDecouplingCapsSolver", "visualize")
            ELSE Untagged("BaseSolver", "preview") >>]

-----------------------------------------------------------------------------
(* State after construction, and the calls a host can make *)

PhaseRecordFields ==
    { "startTimeOfPhase", "endTimeOfPhase", "timeSpentOnPhase",
      "firstIterationOfPhase" }

NoRecord == [n \in {} |-> 0]

\* new LayoutPipelineSolver(inputProblem)
NewLayoutPipelineSolver(inputProblem) ==
    [ inputProblem |-> inputProblem,
      currentPipelineStepIndex |-> 0,
      activeSubSolver |-> "null",
      solvers |-> NoRecord,
      solved |-> FALSE, failed |-> FALSE, error |-> "null", iterations |-> 0,
      startTimeOfPhase |-> NoRecord, endTimeOfPhase |-> NoRecord,
      timeSpentOnPhase |-> NoRecord, firstIterationOfPhase |-> NoRecord,
      chipPartitions |-> "undefined", packedPartitions |-> "undefined",
      \* bookkeeping of the run: hook invocations, writes, constructions
      onSolvedCalls |-> [n \in SolverNames |-> 0],
      writes |-> [f \in {"chipPartitions", "packedPartitions"} |-> 0],
      phaseWrites |-> [f \in PhaseRecordFields |-> [n \in SolverNames |-> 0]],
      constructions |-> << >> ]

NoOutcome ==
    [op |-> "none", threw |-> "none", returned |-> "nothing", warned |-> FALSE]

\* the phase names a caller passes to solveUntilPhase: two phases of the
\* table, the sentinel, and a name that is no phase
PhaseArguments ==
    {"chipPartitionsSolver", "partitionPackingSolver", "none", "noSuchPhase"}

\* The behaviour and the final layout of a sub-solver are drawn when it is
\* constructed; a step() that constructs none draws nothing.
Constructs(self) ==
    /\ ~self.solved
    /\ ~self.failed
    /\ pipelineStepDef(self) # "undefined"
    /\ self.activeSubSolver = "null"

Draws(self) ==
    IF Constructs(self)
    THEN SubSolverBehaviours \X
            (IF pipelineStepDef(self) = "partitionPackingSolver"
             THEN FinalLayoutNames ELSE {"undefined"})
    ELSE { << [kind |-> "never", need |-> 0], "undefined" >> }

\* what a step() call found: a solver that is solved or failed already,
\* or one it stepped
StepOutcome(self) ==
    [op |-> "step", threw |-> "none",
     returned |-> IF self.solved \/ self.failed THEN "no-op" ELSE "stepped",
     warned |-> FALSE]

\* an external step() call
Step ==
    /\ pc = "idle"
    /\ \E d \in Draws(this) : this' = step(this, now, d[1], d[2])
    /\ outcome' = StepOutcome(this)
    /\ UNCHANGED <<now, pc, phase, checkedLayout, reported>>

\* time passes
Tick ==
    /\ now < MaxTime
    /\ now' = now + 1
    /\ UNCHANGED <<this, pc, phase, outcome, checkedLayout, reported>>

\* solveUntilPhase(p) is entered
SolveUntilPhase(p) ==
    /\ pc = "idle"
    /\ pc' = "test"
    /\ phase' = p
    /\ outcome' = NoOutcome
    /\ UNCHANGED <<this, now, checkedLayout, reported>>

\* while (this.getCurrentPhase() !== phase)
SolveUntilPhaseTest ==
    /\ pc = "test"
    /\ IF getCurrentPhase(this) # phase
       THEN pc' = "call" /\ phase' = phase
       ELSE pc' = "idle" /\ phase' = ""
    /\ UNCHANGED <<this, now, outcome, checkedLayout, reported>>

\* this.step() in the body of the loop
SolveUntilPhaseBody ==
    /\ pc = "call"
    /\ \E d \in Draws(this) : this' = step(this, now, d[1], d[2])
    /\ pc' = "test"
    /\ outcome' = StepOutcome(this)
    /\ UNCHANGED <<now, phase, checkedLayout, reported>>

\* a getOutputLayout() call
GetOutputLayout ==
    /\ pc = "idle"
    /\ outcome' = getOutputLayout(this)
    /\ UNCHANGED <<this, now, pc, phase, checkedLayout, reported>>

\* a visualize() call
Visualize ==
    /\ pc = "idle"
    /\ outcome' = [op |-> "visualize", threw |-> "none",
                   returned |-> "graphics", warned |-> FALSE,
                   graphics |-> visualize(this)]
    /\ UNCHANGED <<this, now, pc, phase, checkedLayout, reported>>

\* a preview() call
Preview ==
    /\ pc = "idle"
    /\ outcome' = [op |-> "preview", threw |-> "none",
                   returned |-> "graphics", warned |-> FALSE,
                   graphics |-> preview(this)]
    /\ UNCHANGED <<this, now, pc, phase, checkedLayout, reported>>

\* a checkForOverlaps(layout) call of the host, at any time
CheckLayout(l) ==
    /\ pc = "idle"
    /\ outcome' = [op |-> "checkForOverlaps", threw |-> "none",
                   returned |-> "overlaps", warned |-> FALSE,
                   overlaps |-> checkForOverlaps(this, FinalLayout(l))]
    /\ UNCHANGED <<this, now, pc, phase, checkedLayout, reported>>

Init ==
    /\ this = NewLayoutPipelineSolver(TwoChipProblem)
    /\ now = 0
    /\ pc = "idle"
    /\ phase = ""
    /\ outcome = NoOutcome
    /\ checkedLayout = << >>
    /\ reported = << >>

Next ==
    \/ Step
    \/ Tick
    \/ \E p \in PhaseArguments : SolveUntilPhase(p)
    \/ SolveUntilPhaseTest
    \/ SolveUntilPhaseBody
    \/ GetOutputLayout

Spec == Init /\ [][Next]_vars

\* The host steps the solver and looks at it between the steps: it draws
\* it, asks for the layout, and validates layouts of its own.  None of
\* these calls reads the clock, which stands still here.
NextViewing ==
    \/ Step
    \/ GetOutputLayout
    \/ Visualize
    \/ Preview
    \/ \E l \in FinalLayoutNames \ {"undefined"} : CheckLayout(l)

ViewSpec == Init /\ [][NextViewing]_vars

\* The host keeps calling step(): nothing else runs, and a step() that can
\* be made is made.
NextStepping == Step \/ Tick

FairSpec == Init /\ [][NextStepping]_vars /\ WF_vars(Step)

-----------------------------------------------------------------------------
(* checkForOverlaps on its own: every layout of up to three chips *)

ChipIds == {"U1", "U2", "U3"}
Rotations == {0, 90, 180}
Coords == [x : 0..MaxCoord, y : {0, 3}, deg : Rotations]

\* the orders in which Object.keys can enumerate some of the chip ids
IdOrders ==
    { o \in UNION { [1..k -> ChipIds] : k \in 0..Cardinality(ChipIds) } :
        \A i, j \in DOMAIN o : i # j => o[i] # o[j] }

\* the layout placing the chips of o, in this order, at the coordinates c
LayoutOf(o, c) ==
    [i \in 1..Len(o) |-> Placement(o[i], c[i].x, c[i].y, c[i].deg)]

ThreeChipProblem ==
    [chipMap |-> ("U1" :> Chip(4, 2)) @@ ("U2" :> Chip(4, 2))
                    @@ ("U3" :> Chip(2, 2))]

\* the two-chip problem does not know U3
Problems == {TwoChipProblem, ThreeChipProblem}

\* a checkForOverlaps(layout) call
CheckForOverlaps ==
    /\ pc = "idle"
    /\ outcome.op = "none"
    /\ reported' = checkForOverlaps(this, checkedLayout)
    /\ outcome' = [op |-> "checkForOverlaps", threw |-> "none",
                   returned |-> "overlaps", warned |-> FALSE]
    /\ UNCHANGED <<this, now, pc, phase, checkedLayout>>

InitOverlap ==
    /\ \E p \in Problems : this = NewLayoutPipelineSolver(p)
    /\ now = 0
    /\ pc = "idle"
    /\ phase = ""
    /\ outcome = NoOutcome
    /\ \E o \in IdOrders : \E c \in [1..Len(o) -> Coords] :
          checkedLayout = LayoutOf(o, c)
    /\ reported = << >>

OverlapSpec == InitOverlap /\ [][CheckForOverlaps]_vars

-----------------------------------------------------------------------------
(* getRotatedBounds on its own: one chip, every quarter turn *)

AllRotations == {0, 90, 180, 270}

\* the problems with the single chip U1, its sides 2 or 4 long
OneChipProblems ==
    { [chipMap |-> "U1" :> Chip(w, h)] : w \in {2, 4}, h \in {2, 4} }

\* a getRotatedBounds(placement, size) call, as checkForOverlaps makes it
GetRotatedBounds ==
    /\ pc = "idle"
    /\ outcome.op = "none"
    /\ reported' = getRotatedBounds(checkedLayout[1],
                                    this.inputProblem.chipMap["U1"].size)
    /\ outcome' = [op |-> "getRotatedBounds", threw |-> "none",
                   returned |-> "bounds", warned |-> FALSE]
    /\ UNCHANGED <<this, now, pc, phase, checkedLayout>>

InitRotation ==
    /\ \E p \in OneChipProblems : this = NewLayoutPipelineSolver(p)
    /\ now = 0
    /\ pc = "idle"
    /\ phase = ""
    /\ outcome = NoOutcome
    /\ \E x \in 0..MaxCoord, y \in {0, 3}, deg \in AllRotations :
          checkedLayout = << Placement("U1", x, y, deg) >>
    /\ reported = << >>

RotationSpec == InitRotation /\ [][GetRotatedBounds]_vars


-----------------------------------------------------------------------------
(* Phase order *)

\* the phase that follows each phase in the declared order
PhaseAfter(name) ==
    CASE name = "identifyDecouplingCapsSolver" -> "chipPartitionsSolver"
      [] name = "chipPartitionsSolver"          -> "packInnerPartitionsSolver"
      [] name = "packInnerPartitionsSolver"     -> "partitionPackingSolver"
      [] name = "partitionPackingSolver"        -> "none"
      [] OTHER                                  -> "nothing follows"

\* C1: the values getCurrentPhase() returns along a run are the declared
\* phase order, then "none", or a prefix of it: the first is
\* identifyDecouplingCapsSolver, and every step leaves the value as it is or
\* moves it to the phase declared next; currentPipelineStepIndex never
\* decreases and grows by at most one.
C1_PhaseOrder ==
    [][ /\ this.currentPipelineStepIndex = 0 =>
              getCurrentPhase(this) = "identifyDecouplingCapsSolver"
        /\ \/ this'.currentPipelineStepIndex = this.currentPipelineStepIndex
           \/ this'.currentPipelineStepIndex = this.currentPipelineStepIndex + 1
        /\ \/ getCurrentPhase(this') = getCurrentPhase(this)
           \/ getCurrentPhase(this') = PhaseAfter(getCurrentPhase(this)) ]_vars

\* all four phases have been current, and the sentinel is returned
C1_Witness ==
    /\ getCurrentPhase(this) = "none"
    /\ this.constructions = pipelineDef

-----------------------------------------------------------------------------
(* Progress of repeated step() calls *)

AllSolved(self) ==
    \A n \in SolverNames : IsSet(self, n) /\ self.solvers[n].solved

\* some sub-solver constructed so far is one that fails or never solves
SomeSubSolverDoesNotSolve ==
    \E n \in DOMAIN this.solvers : this.solvers[n].kind # "solves"

Finished == this.solved /\ getCurrentPhase(this) = "none"

\* C2 as claimed: if every sub-solver solves and none fails, repeated
\* step() calls reach solved = true with getCurrentPhase() = "none".
C2_AsClaimed == <>Finished \/ <>SomeSubSolverDoesNotSolve

\* C2, amended: the same, unless the orchestrator's own iteration counter
\* passes MAX_ITERATIONS first.
C2_SolvedUnlessOwnBound ==
    \/ <>Finished
    \/ <>SomeSubSolverDoesNotSolve
    \/ <>(this.iterations > MAX_ITERATIONS)

C2_Witness ==
    /\ Finished
    /\ AllSolved(this)
    /\ ~this.failed

\* a sub-solver that never solves has been constructed
NeverSolving(n) == IsSet(this, n) /\ this.solvers[n].kind = "never"

\* C4: once the sub-solver of a phase is one that never solves, the
\* orchestrator ends failed with an error, is never solved, and constructs
\* the sub-solver of no later phase.
C4_NeverSolvingPhase ==
    /\ [](\A n \in SolverNames : NeverSolving(n) =>
            /\ ~this.solved
            /\ \A m \in DOMAIN this.solvers : IndexOf(m) <= IndexOf(n))
    /\ (\E n \in SolverNames : NeverSolving(n))
          ~> (this.failed /\ this.error # "null")

\* the sub-solver ran past its iteration bound and the orchestrator failed
C4_Witness ==
    \E n \in SolverNames :
        /\ NeverSolving(n)
        /\ this.solvers[n].failed
        /\ this.solvers[n].iterations > SubMaxIterations
        /\ this.failed
        /\ this.error = "IterationLimitExceeded"
        /\ this.activeSubSolver = "null"

-----------------------------------------------------------------------------
(* step() on a finished orchestrator *)

\* C3: a step() call on an orchestrator that is solved or failed changes
\* nothing of it: index, active sub-solver, flags, error, timing records,
\* phase outputs, and every sub-solver stay as they are.
C3_StepIdempotent ==
    [][ (this.solved \/ this.failed) => this' = this ]_vars

\* step() has been called on an orchestrator that had failed
C3_Witness ==
    /\ outcome.op = "step"
    /\ outcome.returned = "no-op"
    /\ this.failed


-----------------------------------------------------------------------------
(* solveUntilPhase *)

\* C5: solveUntilPhase stops calling step() as soon as getCurrentPhase()
\* equals its argument or the orchestrator is solved or failed: its loop is
\* never about to call step() on an orchestrator that is solved or failed.
C5_StopsWhenFinished ==
    ~(pc = "call" /\ (this.solved \/ this.failed))

-----------------------------------------------------------------------------
(* getOutputLayout *)

TerminalSolverHasLayout(self) ==
    /\ IsSet(self, "partitionPackingSolver")
    /\ self.solvers["partitionPackingSolver"].solved
    /\ self.solvers["partitionPackingSolver"].output # "undefined"

\* C6: a getOutputLayout() call leaves the orchestrator as it is; it throws
\* IncompleteError when solved is false, InvalidFinalLayoutError when solved
\* but the terminal solver is not solved or has no finalLayout, and returns
\* the terminal solver's finalLayout otherwise, with or without overlaps.
C6_GetOutputLayout ==
    [][ outcome'.op = "getOutputLayout" =>
          /\ this' = this
          /\ ~this.solved =>
                /\ outcome'.threw = "IncompleteError"
                /\ outcome'.returned = "nothing"
          /\ this.solved /\ ~TerminalSolverHasLayout(this) =>
                /\ outcome'.threw = "InvalidFinalLayoutError"
                /\ outcome'.returned = "nothing"
          /\ this.solved /\ TerminalSolverHasLayout(this) =>
                /\ outcome'.threw = "none"
                /\ outcome'.returned =
                      this.solvers["partitionPackingSolver"].output ]_vars

\* a layout with an overlap has been returned, with the warning
C6_Witness ==
    /\ outcome.op = "getOutputLayout"
    /\ outcome.threw = "none"
    /\ outcome.returned = "overlapping"
    /\ outcome.warned

-----------------------------------------------------------------------------
(* Completion hooks *)

\* the sub-solver of phase n is solved after the step and was not before
BecomesSolved(n) ==
    /\ IsSet(this', n) /\ this'.solvers[n].solved
    /\ ~(IsSet(this, n) /\ this.solvers[n].solved)

\* C7: when solved = true, the onSolved hook of each of the four phases has
\* run exactly once; a hook runs in the step in which the sub-solver of its
\* phase becomes solved, and in no other.
C7_HooksOnce ==
    [][ /\ this'.solved => \A n \in SolverNames : this'.onSolvedCalls[n] = 1
        /\ \A n \in SolverNames :
              IF BecomesSolved(n)
              THEN this'.onSolvedCalls[n] = this.onSolvedCalls[n] + 1
              ELSE this'.onSolvedCalls[n] = this.onSolvedCalls[n] ]_vars

C7_Witness ==
    /\ this.solved
    /\ \A n \in SolverNames : this.onSolvedCalls[n] = 1

-----------------------------------------------------------------------------
(* Timing records *)

Completed(n) == IsSet(this, n) /\ this.solvers[n].solved

ElapsedIsEndMinusStart(n) ==
    this.timeSpentOnPhase[n] = this.endTimeOfPhase[n] - this.startTimeOfPhase[n]

\* C8 as claimed: for a completed phase timeSpentOnPhase = endTimeOfPhase -
\* startTimeOfPhase, start and end are written exactly once, and every
\* field of the phase record is written at most once.
C8_AsClaimed ==
    /\ \A n \in SolverNames : Completed(n) =>
          /\ ElapsedIsEndMinusStart(n)
          /\ this.phaseWrites["startTimeOfPhase"][n] = 1
          /\ this.phaseWrites["endTimeOfPhase"][n] = 1
    /\ \A f \in PhaseRecordFields, n \in SolverNames : this.phaseWrites[f][n] <= 1

\* C8, amended: for a completed phase timeSpentOnPhase = endTimeOfPhase -
\* startTimeOfPhase; startTimeOfPhase, endTimeOfPhase and
\* firstIterationOfPhase are written at most once in a run and exactly once
\* for a completed phase; timeSpentOnPhase is written twice, 0 when the
\* sub-solver is constructed and the difference when it completes.
C8_TimingRecords ==
    /\ \A n \in SolverNames : Completed(n) =>
          /\ ElapsedIsEndMinusStart(n)
          /\ this.phaseWrites["startTimeOfPhase"][n] = 1
          /\ this.phaseWrites["endTimeOfPhase"][n] = 1
          /\ this.phaseWrites["firstIterationOfPhase"][n] = 1
          /\ this.phaseWrites["timeSpentOnPhase"][n] = 2
    /\ \A n \in SolverNames :
          /\ this.phaseWrites["startTimeOfPhase"][n] <= 1
          /\ this.phaseWrites["endTimeOfPhase"][n] <= 1
          /\ this.phaseWrites["firstIterationOfPhase"][n] <= 1
          /\ ~Completed(n) /\ IsSet(this, n) =>
                /\ this.timeSpentOnPhase[n] = 0
                /\ this.phaseWrites["timeSpentOnPhase"][n] = 1

\* a phase has completed some time after it started
C8_Witness ==
    \E n \in SolverNames :
        /\ Completed(n)
        /\ this.endTimeOfPhase[n] > this.startTimeOfPhase[n]


-----------------------------------------------------------------------------
(* checkForOverlaps *)

Checked == outcome.op = "checkForOverlaps"

\* the chips of the checked layout that the input problem knows
Known(i) == checkedLayout[i].chipId \in DOMAIN this.inputProblem.chipMap

BoundsOf(i) ==
    getRotatedBounds(checkedLayout[i],
                     this.inputProblem.chipMap[checkedLayout[i].chipId].size)

\* the pair of the i-th and the j-th chip of the layout is reported k times
TimesReported(id1, id2) ==
    Cardinality({ k \in DOMAIN reported :
                    reported[k].chip1 = id1 /\ reported[k].chip2 = id2 })

\* C9: checkForOverlaps returns each pair of distinct chips whose bounds
\* overlap exactly once, the chip enumerated first as chip1; it returns no
\* pair in the other order, no chip with itself, and no other pair.
C9_PairwiseUnique ==
    Checked =>
        \A i, j \in DOMAIN checkedLayout :
            LET id1 == checkedLayout[i].chipId
                id2 == checkedLayout[j].chipId
            IN IF /\ i < j
                  /\ Known(i) /\ Known(j)
                  /\ Less(Num(0), calculateOverlapArea(BoundsOf(i), BoundsOf(j)))
               THEN TimesReported(id1, id2) = 1
               ELSE TimesReported(id1, id2) = 0

\* three chips that overlap pairwise have been checked
C9_Witness ==
    /\ Checked
    /\ Len(checkedLayout) = 3
    /\ Len(reported) = 3

\* the extent of the overlap of two bounds on each axis
XExtent(b1, b2) == Sub(MinNum(b1.maxX, b2.maxX), MaxNum(b1.minX, b2.minX))
YExtent(b1, b2) == Sub(MinNum(b1.maxY, b2.maxY), MaxNum(b1.minY, b2.minY))

ReportedArea(id1, id2) ==
    { reported[k].overlapArea :
        k \in { l \in DOMAIN reported :
                    reported[l].chip1 = id1 /\ reported[l].chip2 = id2 } }

SpecScenario ==
    /\ this.inputProblem = TwoChipProblem
    /\ checkedLayout = << Placement("U1", 0, 0, 0), Placement("U2", 1, 0, 0) >>

\* C10: a pair is reported iff the extents of the overlap of the two
\* rotated bounds are greater than 0 on the X and on the Y axis (bounds that
\* touch are not reported), the reported area is the product of the two
\* extents, and two 2x2 chips at (0,0,0) and (1,0,0) give area 2.
C10_OverlapTestAndArea ==
    Checked =>
        /\ \A i \in DOMAIN checkedLayout :
              \A j \in { k \in DOMAIN checkedLayout : i < k } :
                 (Known(i) /\ Known(j)) =>
                    LET b1 == BoundsOf(i)
                        b2 == BoundsOf(j)
                        w == XExtent(b1, b2)
                        h == YExtent(b1, b2)
                        id1 == checkedLayout[i].chipId
                        id2 == checkedLayout[j].chipId
                    IN IF Less(Num(0), w) /\ Less(Num(0), h)
                       THEN ReportedArea(id1, id2) = { Mul(w, h) }
                       ELSE ReportedArea(id1, id2) = {}
        /\ SpecScenario =>
              reported = << [chip1 |-> "U1", chip2 |-> "U2",
                             overlapArea |-> Num(2)] >>

\* the i-th and the j-th chip touch along an edge and are not reported
TouchingUnreported(i, j) ==
    /\ i < j /\ Known(i) /\ Known(j)
    /\ \/ /\ XExtent(BoundsOf(i), BoundsOf(j)) = Num(0)
          /\ Less(Num(0), YExtent(BoundsOf(i), BoundsOf(j)))
       \/ /\ YExtent(BoundsOf(i), BoundsOf(j)) = Num(0)
          /\ Less(Num(0), XExtent(BoundsOf(i), BoundsOf(j)))
    /\ TimesReported(checkedLayout[i].chipId, checkedLayout[j].chipId) = 0

\* a layout with two chips that touch along an edge and two that overlap
\* has been checked
C10_Witness ==
    /\ Checked
    /\ \E i, j \in DOMAIN checkedLayout : TouchingUnreported(i, j)
    /\ \E k \in DOMAIN reported : Less(Num(1), reported[k].overlapArea)

-----------------------------------------------------------------------------
(* The rotated-chip scenario *)

\* the width and the height of a bound
WidthOf(b) == Sub(b.maxX, b.minX)
HeightOf(b) == Sub(b.maxY, b.minY)

\* a is the integer n, or the double next above it
AtOrJustAbove(a, n) == a.n = n /\ a.e \in {0, UlpOf(n, 1)} /\ a.ee = 0

\* the i-th chip of the layout is a 4x2 chip at 0 degrees, the j-th the
\* other 4x2 chip, turned by 90 degrees around the same centre
RotatedScenario(i, j) ==
    /\ this.inputProblem = ThreeChipProblem
    /\ {checkedLayout[i].chipId, checkedLayout[j].chipId} = {"U1", "U2"}
    /\ checkedLayout[i].ccwRotationDegrees = 0
    /\ checkedLayout[j].ccwRotationDegrees = 90
    /\ checkedLayout[i].x = checkedLayout[j].x
    /\ checkedLayout[i].y = checkedLayout[j].y

\* the areas reported for the i-th and the j-th chip, in layout order
AreaOfPair(i, j) ==
    IF i < j
    THEN ReportedArea(checkedLayout[i].chipId, checkedLayout[j].chipId)
    ELSE ReportedArea(checkedLayout[j].chipId, checkedLayout[i].chipId)

\* C11 as claimed: in the rotated-chip scenario the bound of the rotated
\* chip is 2x4 and the pair is reported with overlap area 8.
C11_AsClaimed ==
    Checked =>
        \A i, j \in DOMAIN checkedLayout :
            RotatedScenario(i, j) =>
                /\ WidthOf(BoundsOf(j)) = Num(2)
                /\ HeightOf(BoundsOf(j)) = Num(4)
                /\ AreaOfPair(i, j) = { Num(8) }

\* C11, amended: in the rotated-chip scenario the bound of the rotated chip
\* is 2 wide, or wider by one rounding step of double arithmetic, and 4
\* high, and the pair is reported once with the area of the 2x2
\* intersection of the two bounds: 4, or the double next above 4.
C11_RotatedScenario ==
    Checked =>
        \A i, j \in DOMAIN checkedLayout :
            RotatedScenario(i, j) =>
                /\ AtOrJustAbove(WidthOf(BoundsOf(j)), 2)
                /\ HeightOf(BoundsOf(j)) = Num(4)
                /\ \E a \in AreaOfPair(i, j) :
                      /\ AreaOfPair(i, j) = {a}
                      /\ AtOrJustAbove(a, 4)
                /\ TimesReported(checkedLayout[i].chipId,
                                 checkedLayout[j].chipId)
                     + TimesReported(checkedLayout[j].chipId,
                                     checkedLayout[i].chipId) = 1

\* the scenario has been checked with the rotated chip enumerated first,
\* around a centre where the rounding shows in the reported area
C11_Witness ==
    /\ Checked
    /\ \E i, j \in DOMAIN checkedLayout :
          /\ RotatedScenario(i, j)
          /\ j < i
          /\ AreaOfPair(i, j) = { [n |-> 4, e |-> UlpOf(4, 1), ee |-> 0] }

-----------------------------------------------------------------------------
(* Rotation correctness *)

\* the bound around (x, y) with the half-extents hw and hh
BoundAround(x, y, hw, hh) ==
    [ minX |-> Sub(Num(x), hw), maxX |-> Add(Num(x), hw),
      minY |-> Sub(Num(y), hh), maxY |-> Add(Num(y), hh) ]

\* C12: getRotatedBounds returns the bound centred on (x, y) whose
\* half-extents are the raw ones (size.x/2, size.y/2) at 0 and 180 degrees
\* and the raw ones swapped (size.y/2, size.x/2) at 90 and 270 degrees.
C12_RotationCorrectness ==
    outcome.op = "getRotatedBounds" =>
        LET placement == checkedLayout[1]
            size == this.inputProblem.chipMap["U1"].size
        IN IF placement.ccwRotationDegrees \in {0, 180}
           THEN reported = BoundAround(placement.x, placement.y,
                                       Half(size.x), Half(size.y))
           ELSE reported = BoundAround(placement.x, placement.y,
                                       Half(size.y), Half(size.x))

-----------------------------------------------------------------------------
(* Failure of a sub-solver *)

\* the active sub-solver n is failed after the step and was not before
BecomesFailed(n) ==
    /\ this.activeSubSolver = n
    /\ ~this.solvers[n].failed
    /\ this'.solvers[n].failed

\* the orchestrator as its _step leaves it when step() is called now, with
\* an active sub-solver
AfterOwnStep ==
    _step([this EXCEPT !.iterations = @ + 1], now,
          [kind |-> "never", need |-> 0], "undefined")

-----------------------------------------------------------------------------
(* Ordering of the phases *)

\* the sub-solver of phase n is constructed in the step
ConstructedInStep(n) == ~IsSet(this, n) /\ IsSet(this', n)

\* C14: the sub-solver of phase N+1 is constructed only in a state in which
\* the sub-solver of phase N is solved, the onSolved hook of phase N has run
\* (its output is in place) and activeSubSolver is null; the hook, the
\* clearing and the increment of the index of a phase happen in the one
\* step in which its sub-solver becomes solved, and that step constructs
\* nothing.
C14_OrderingGuarantee ==
    [][ /\ \A k \in 1..(Len(pipelineDef) - 1) :
              ConstructedInStep(pipelineDef[k + 1]) =>
                  /\ IsSet(this, pipelineDef[k])
                  /\ this.solvers[pipelineDef[k]].solved
                  /\ this.onSolvedCalls[pipelineDef[k]] = 1
                  /\ this.activeSubSolver = "null"
                  /\ this.currentPipelineStepIndex = k
                  /\ this'.solvers[pipelineDef[k + 1]].params =
                        getConstructorParams(this, pipelineDef[k + 1])
        /\ ConstructedInStep("packInnerPartitionsSolver") =>
              this.chipPartitions = "partitions"
        /\ ConstructedInStep("partitionPackingSolver") =>
              this.packedPartitions = "packedPartitions"
        /\ \A n \in SolverNames : BecomesSolved(n) =>
              /\ this'.onSolvedCalls[n] = this.onSolvedCalls[n] + 1
              /\ this'.activeSubSolver = "null"
              /\ this'.currentPipelineStepIndex = IndexOf(n) + 1
              /\ this.currentPipelineStepIndex = IndexOf(n)
              /\ this'.constructions = this.constructions ]_vars

\* the last phase has been constructed from the output of the third
C14_Witness ==
    /\ this.activeSubSolver = "partitionPackingSolver"
    /\ this.constructions = pipelineDef
    /\ this.solvers["partitionPackingSolver"].params =
          << "packedPartitions", "inputProblem" >>
    /\ \A k \in 1..3 : this.onSolvedCalls[pipelineDef[k]] = 1

-----------------------------------------------------------------------------
(* Accumulated phase outputs *)

\* the phase whose completion hook produces each accumulated output
ProducerOf(f) ==
    IF f = "chipPartitions" THEN "chipPartitionsSolver"
    ELSE "packInnerPartitionsSolver"

\* C15: chipPartitions and packedPartitions are each written once in a run,
\* in the step in which the sub-solver of the producing phase becomes
\* solved (the step that runs its hook) and in no other; once written they
\* keep their value, and visualize(), preview(), getOutputLayout() and
\* checkForOverlaps() calls leave the orchestrator as it is.
C15_SingleWriter ==
    [][ /\ \A f \in {"chipPartitions", "packedPartitions"} :
              /\ IF BecomesSolved(ProducerOf(f))
                 THEN /\ this'.writes[f] = this.writes[f] + 1
                      /\ this'[f] = this'.solvers[ProducerOf(f)].output
                      /\ this'.onSolvedCalls[ProducerOf(f)] =
                            this.onSolvedCalls[ProducerOf(f)] + 1
                 ELSE /\ this'.writes[f] = this.writes[f]
                      /\ this'[f] = this[f]
              /\ this'.writes[f] <= 1
              /\ this'.solved => this'.writes[f] = 1
        /\ outcome'.op \in {"visualize", "preview", "getOutputLayout",
                             "checkForOverlaps"} => this' = this ]_vars

\* both outputs are written and visualize() has been called afterwards
C15_Witness ==
    /\ this.writes["chipPartitions"] = 1
    /\ this.writes["packedPartitions"] = 1
    /\ this.chipPartitions = "partitions"
    /\ this.packedPartitions = "packedPartitions"
    /\ this.solved
    /\ outcome.op = "visualize"

-----------------------------------------------------------------------------
(* visualize() and preview() *)

\* C16: a visualize() call made while no phase solver has been constructed
\* finds the visualization of the input problem alone and returns it
\* unmerged and untagged: none of its primitives carries a step tag.
C16_SingleVisualization ==
    (outcome.op = "visualize" /\ this.constructions = << >>) =>
        /\ ~outcome.graphics.merged
        /\ Len(outcome.graphics.layers) = 1
        /\ outcome.graphics.layers[1].of = "inputProblem"
        /\ ~outcome.graphics.layers[1].tagged

\* the phases whose sub-solver has completed
CompletedPhases == { n \in SolverNames : Completed(n) }

MostAdvancedCompleted ==
    CHOOSE n \in CompletedPhases :
        \A m \in CompletedPhases : IndexOf(m) <= IndexOf(n)

\* C17: preview() returns the preview() of the active sub-solver if there
\* is one; otherwise the visualize() of the most advanced phase whose
\* sub-solver has completed, and the fallback of the orchestrator if no
\* phase has completed: never the view of a phase that did not complete.
C17_PreviewResolution ==
    outcome.op = "preview" =>
        /\ ~outcome.graphics.merged
        /\ outcome.graphics.layers =
              << IF this.activeSubSolver # "null"
                 THEN Untagged(this.activeSubSolver, "preview")
                 ELSE IF CompletedPhases = {}
                 THEN Untagged("BaseSolver", "preview")
                 ELSE Untagged(MostAdvancedCompleted, "visualize") >>

-----------------------------------------------------------------------------
(* The solved and the failed flag *)

\* some sub-solver has failed
SomeSubSolverFailed ==
    \E n \in DOMAIN this.solvers : this.solvers[n].failed

\* C18: solved and failed are never both true; solved implies that the
\* index is the length of the phase table, that no sub-solver is active and
\* that the four solver fields are set and solved; failed after the failure
\* of a sub-solver implies that no sub-solver is active and that the index
\* is below the length of the table.
C18_FlagInvariants ==
    /\ ~(this.solved /\ this.failed)
    /\ this.solved =>
          /\ this.currentPipelineStepIndex = Len(pipelineDef)
          /\ this.activeSubSolver = "null"
          /\ AllSolved(this)
    /\ (this.failed /\ SomeSubSolverFailed) =>
          /\ this.activeSubSolver = "null"
          /\ this.currentPipelineStepIndex < Len(pipelineDef)

\* the third phase has failed after two completed ones
C18_Witness ==
    /\ this.failed
    /\ ~this.solved
    /\ this.currentPipelineStepIndex = 2
    /\ IsSet(this, "packInnerPartitionsSolver")
    /\ this.solvers["packInnerPartitionsSolver"].failed
    /\ this.solvers["chipPartitionsSolver"].solved
    /\ this.activeSubSolver = "null"

-----------------------------------------------------------------------------
(* The step that sets solved *)

\* C19: the step in which the sub-solver of the last phase becomes solved
\* takes the index to the length of the table and does not set solved;
\* solved is set by a later step, one that finds no phase at the index and
\* does nothing else, from a state in which getCurrentPhase() is "none",
\* solved and failed are false and no sub-solver is active; and solved
\* implies getCurrentPhase() = "none".
C19_SolvedOneStepLater ==
    /\ [][ /\ BecomesSolved("partitionPackingSolver") =>
                 /\ this'.currentPipelineStepIndex = Len(pipelineDef)
                 /\ getCurrentPhase(this') = "none"
                 /\ this'.activeSubSolver = "null"
                 /\ ~this'.solved
           /\ (this'.solved /\ ~this.solved) =>
                 /\ pipelineStepDef(this) = "undefined"
                 /\ getCurrentPhase(this) = "none"
                 /\ ~this.failed
                 /\ this.activeSubSolver = "null"
                 /\ this' = [this EXCEPT !.solved = TRUE,
                                         !.iterations = @ + 1] ]_vars
    /\ [](this.solved => getCurrentPhase(this) = "none")

\* a step() has set solved, one step after the last phase completed
C19_Witness ==
    /\ this.solved
    /\ outcome.op = "step"
    /\ outcome.returned = "stepped"
    /\ this.iterations =
          this.firstIterationOfPhase["partitionPackingSolver"]
            + this.solvers["partitionPackingSolver"].iterations + 1

-----------------------------------------------------------------------------
(* Orchestrator steps and sub-solver steps *)

\* a step() call that is not a no-op has been made
Stepped == this'.iterations = this.iterations + 1

\* C20: the step that constructs a sub-solver does not step it and records
\* the orchestrator's iteration counter of that step as
\* firstIterationOfPhase; every other step of an orchestrator with an
\* active sub-solver steps that sub-solver once and no other; a phase whose
\* sub-solver solves at its k-th step has then taken k + 1 orchestrator
\* steps, and the next phase is constructed in the step after these; so
\* firstIterationOfPhase grows strictly along the phase order.
C20_StepAccounting ==
    [][ /\ \A n \in SolverNames : ConstructedInStep(n) =>
              /\ Stepped
              /\ this.activeSubSolver = "null"
              /\ this'.activeSubSolver = n
              /\ this'.solvers[n].iterations = 0
              /\ this'.firstIterationOfPhase[n] = this'.iterations
              /\ \A m \in DOMAIN this.solvers :
                    this'.solvers[m] = this.solvers[m]
        /\ (Stepped /\ this.activeSubSolver # "null") =>
              /\ this'.solvers[this.activeSubSolver].iterations =
                    this.solvers[this.activeSubSolver].iterations + 1
              /\ DOMAIN this'.solvers = DOMAIN this.solvers
              /\ \A m \in DOMAIN this.solvers \ {this.activeSubSolver} :
                    this'.solvers[m] = this.solvers[m]
        /\ \A n \in SolverNames : BecomesSolved(n) =>
              this'.iterations - this'.firstIterationOfPhase[n] + 1
                  = this'.solvers[n].iterations + 1
        /\ \A k \in 1..(Len(pipelineDef) - 1) :
              ConstructedInStep(pipelineDef[k + 1]) =>
                  /\ this'.firstIterationOfPhase[pipelineDef[k + 1]] =
                        this.firstIterationOfPhase[pipelineDef[k]]
                          + this.solvers[pipelineDef[k]].iterations + 1
                  /\ this'.firstIterationOfPhase[pipelineDef[k]] <
                        this'.firstIterationOfPhase[pipelineDef[k + 1]] ]_vars

\* a phase whose sub-solver took two steps has taken three orchestrator
\* steps, and the next phase has been constructed in the fourth
C20_Witness ==
    \E k \in 1..(Len(pipelineDef) - 1) :
        /\ IsSet(this, pipelineDef[k + 1])
        /\ this.solvers[pipelineDef[k]].solved
        /\ this.solvers[pipelineDef[k]].iterations = 2
        /\ this.firstIterationOfPhase[pipelineDef[k + 1]] =
              this.firstIterationOfPhase[pipelineDef[k]] + 3

=============================================================================
